---------------------------- MODULE Spec2Model ----------------------------
(***************************************************************************)
(* A model of the clean-code planning server of src/index.ts: the class    *)
(* CleanCodePlanningServer with its two fields (reflectionHistory,         *)
(* branches) and its operation processCodePlanning, which validates an     *)
(* untyped input, adjusts totalSteps, records the step and returns a JSON  *)
(* text payload.                                                           *)
(*                                                                         *)
(* JavaScript values are modelled as tagged records, so that the code's    *)
(* truthiness tests, typeof tests, property-key lookups and string         *)
(* conversions are computed as the language computes them.                 *)
(***************************************************************************)
EXTENDS Integers, Sequences, FiniteSets

(***************************************************************************)
(* Bounds of the model.                                                    *)
(***************************************************************************)
\* The number of calls to processCodePlanning in one behaviour.
MaxCalls == 2

(***************************************************************************)
(* JavaScript values.  Every value is a record with the same four fields:  *)
(* t is the kind of value, n the value of a finite number, s the value of  *)
(* a string (for a number: "" when finite, else "Infinity" or "NaN"; for   *)
(* an object: "plain" for an ordinary object, "noprim" for an object that  *)
(* cannot be converted to a primitive, such as {"toString": 1}), b the     *)
(* value of a boolean.                                                     *)
(***************************************************************************)
Undef == [t |-> "undefined", n |-> 0, s |-> "", b |-> FALSE]

Null == [t |-> "null", n |-> 0, s |-> "", b |-> FALSE]

Bool(x) == [t |-> "boolean", n |-> 0, s |-> "", b |-> x]

Num(k) == [t |-> "number", n |-> k, s |-> "", b |-> FALSE]

PosInf == [t |-> "number", n |-> 0, s |-> "Infinity", b |-> FALSE]

NaN == [t |-> "number", n |-> 0, s |-> "NaN", b |-> FALSE]

Str(x) == [t |-> "string", n |-> 0, s |-> x, b |-> FALSE]

PlainObj == [t |-> "object", n |-> 0, s |-> "plain", b |-> FALSE]

NoPrimObj == [t |-> "object", n |-> 0, s |-> "noprim", b |-> FALSE]

\* The typeof operator.
TypeOf(v) == IF v.t = "null" THEN "object" ELSE v.t

\* ToBoolean: what `!x` and `if (x)` test.
Truthy(v) ==
    CASE v.t = "undefined" -> FALSE
      [] v.t = "null" -> FALSE
      [] v.t = "boolean" -> v.b
      [] v.t = "number" -> IF v.s = "" THEN v.n # 0 ELSE v.s = "Infinity"
      [] v.t = "string" -> v.s # ""
      [] v.t = "object" -> TRUE

\* a > b on two numbers (neither operand is NaN where the code compares).
Gt(a, b) ==
    CASE a.s = "NaN" \/ b.s = "NaN" -> FALSE
      [] a.s = "Infinity" -> b.s # "Infinity"
      [] b.s = "Infinity" -> FALSE
      [] OTHER -> a.n > b.n

Digit(d) == <<"0", "1", "2", "3", "4", "5", "6", "7", "8", "9">>[d + 1]

RECURSIVE NatToString(_)
NatToString(k) ==
    IF k < 10 THEN Digit(k) ELSE NatToString(k \div 10) \o Digit(k % 10)

\* Number.prototype.toString: the decimal text of a number.
NumToString(v) ==
    CASE v.s # "" -> v.s
      [] v.n < 0 -> "-" \o NatToString(-v.n)
      [] OTHER -> NatToString(v.n)

\* Whether ToString(v) (a template literal's ${v}, a property key) throws.
ToStringThrows(v) == v.t = "object" /\ v.s = "noprim"

\* ToString(v) of the language, where it does not throw.
JsToString(v) ==
    CASE v.t = "undefined" -> "undefined"
      [] v.t = "null" -> "null"
      [] v.t = "boolean" -> IF v.b THEN "true" ELSE "false"
      [] v.t = "number" -> NumToString(v)
      [] v.t = "string" -> v.s
      [] v.t = "object" -> "[object Object]"

\* JSON.stringify of a number, read back by the receiver: a finite number
\* is written as itself, Infinity and NaN are written as null.
JsonNumber(v) == IF v.s = "" THEN v ELSE Null

(***************************************************************************)
(* The messages of the errors the code throws or the engine raises.        *)
(***************************************************************************)
MsgReflection == "Invalid codeReflection: must be a string"

MsgStepNumber == "Invalid stepNumber: must be a number"

MsgTotalSteps == "Invalid totalSteps: must be a number"

MsgNextStepNeeded == "Invalid nextStepNeeded: must be a boolean"

MsgNullInput == "Cannot read properties of null (reading 'codeReflection')"

MsgUndefinedInput == "Cannot read properties of undefined (reading 'codeReflection')"

MsgNotAFunction == "this.branches[validatedInput.branchId].push is not a function"

MsgNoPrimitive == "Cannot convert object to primitive value"

\* The message of what console.error throws when it throws.
MsgWriteFailed == "write EPIPE"

ValidationMessages == {MsgReflection, MsgStepNumber, MsgTotalSteps, MsgNextStepNeeded}

(***************************************************************************)
(* The inputs of processCodePlanning.  The parameter is `unknown`: it may  *)
(* be null, undefined, a primitive or an object.  An object is given by    *)
(* the values of the nine properties the code reads (Undef for a property  *)
(* the object does not have); reading a property of a primitive gives      *)
(* undefined, reading one of null or undefined throws a TypeError.         *)
(***************************************************************************)
MakeInput(kind, refl, step, total, next, opt) ==
    [kind |-> kind,
     codeReflection |-> refl,
     stepNumber |-> step,
     totalSteps |-> total,
     nextStepNeeded |-> next,
     isRevision |-> opt.isRevision,
     revisesStep |-> opt.revisesStep,
     branchFromStep |-> opt.branchFromStep,
     branchId |-> opt.branchId,
     needsMoreSteps |-> opt.needsMoreSteps]

Optional(rev, revises, from, id, more) ==
    [isRevision |-> rev, revisesStep |-> revises, branchFromStep |-> from,
     branchId |-> id, needsMoreSteps |-> more]

NoOptional == Optional(Undef, Undef, Undef, Undef, Undef)

\* The values tried for each required property: a valid one, then absent,
\* falsy and of the wrong type.
ReflectionValues == {Str("x"), Undef, Str(""), Num(1)}

StepNumberValues == {Num(1), Undef, Num(0), NaN, Str("1")}

TotalStepsValues == {Num(1), Undef, Num(0), Str("2")}

NextStepNeededValues == {Bool(TRUE), Undef, Str("true")}

\* The numbers tried for a stepNumber and a totalSteps that pass validation.
ValidStepNumbers == {Num(1), Num(2), Num(-1), PosInf}

ValidTotalSteps == {Num(1), Num(2)}

\* The combinations tried for the optional properties.
OptionalValues ==
    {Optional(Undef, Undef, Num(1), Str("a"), Undef),
     Optional(Undef, Undef, Num(1), Str("b"), Undef),
     Optional(Undef, Undef, Num(1), Str("constructor"), Undef),
     Optional(Undef, Undef, Num(1), Str(""), Undef),
     Optional(Undef, Undef, Num(1), Undef, Undef),
     Optional(Undef, Undef, Num(1), NoPrimObj, Undef),
     Optional(Undef, Undef, Num(1), PlainObj, Undef),
     Optional(Undef, Undef, Undef, Str("a"), Undef),
     Optional(Undef, Undef, Num(0), Str("b"), Undef),
     Optional(Bool(TRUE), Num(1), Undef, Undef, Undef),
     Optional(Bool(TRUE), NoPrimObj, Undef, Undef, Undef),
     Optional(Bool(TRUE), NoPrimObj, Num(1), Str("a"), Undef),
     Optional(Bool(FALSE), Undef, Undef, Undef, Bool(TRUE))}

\* The combinations tried for the required properties: every value of the
\* first property that is not the valid one, with each later property either
\* valid or absent.
CoreValues ==
    {c \in ReflectionValues \X StepNumberValues \X TotalStepsValues
            \X NextStepNeededValues :
        /\ c[1] # Str("x") => c[2] \in {Num(1), Undef}
        /\ (c[1] # Str("x") \/ c[2] # Num(1)) => c[3] \in {Num(1), Undef}
        /\ (c[1] # Str("x") \/ c[2] # Num(1) \/ c[3] # Num(1))
              => c[4] \in {Bool(TRUE), Undef}}

\* Objects with these combinations and no optional property.
CoreInputs ==
    {MakeInput("object", c[1], c[2], c[3], c[4], NoOptional) : c \in CoreValues}

\* Objects that pass validation, with no optional property.
ValidInputs ==
    {MakeInput("object", Str("x"), s, t, Bool(TRUE), NoOptional) :
        s \in ValidStepNumbers, t \in ValidTotalSteps}
    \cup {MakeInput("object", Str("x"), Num(2), Num(1), Bool(FALSE), NoOptional)}

\* Objects with optional properties: on a valid core, on a valid core whose
\* totalSteps is too small, and on a core that fails validation.
OptionalInputs ==
    {MakeInput("object", Str("x"), c[1], c[2], c[3], o) :
        c \in {<<Num(1), Num(1), Bool(TRUE)>>,
               <<Undef, Num(1), Bool(TRUE)>>},
        o \in OptionalValues}
    \cup
    {MakeInput("object", Str("x"), Num(2), Num(1), Bool(FALSE), o) :
        o \in {Optional(Undef, Undef, Num(1), Str("a"), Undef),
               Optional(Bool(TRUE), Num(1), Undef, Undef, Undef)}}

\* null, undefined and a primitive (a number, say).
NonObjectInputs ==
    {MakeInput(k, Undef, Undef, Undef, Undef, NoOptional) :
        k \in {"null", "undefined", "primitive"}}

Inputs == CoreInputs \cup ValidInputs \cup OptionalInputs \cup NonObjectInputs

(***************************************************************************)
(* validateCodePlanningData.  The outcome is a record: threw tells whether *)
(* the function threw, error is the message of what it threw, data the     *)
(* CodePlanningData object it returned.                                    *)
(***************************************************************************)
NoData ==
    [codeReflection |-> Undef, stepNumber |-> Undef, totalSteps |-> Undef,
     nextStepNeeded |-> Undef, isRevision |-> Undef, revisesStep |-> Undef,
     branchFromStep |-> Undef, branchId |-> Undef, needsMoreSteps |-> Undef]

Throw(msg) == [threw |-> TRUE, error |-> msg, data |-> NoData]

Return(d) == [threw |-> FALSE, error |-> "", data |-> d]

\* validateCodePlanningData with the two numbers checked by typeof alone
\* (lines 35 and 38 without their !data.x).
validateByTypeofOnly(in) ==
    IF in.kind = "null" THEN Throw(MsgNullInput)
    ELSE IF in.kind = "undefined" THEN Throw(MsgUndefinedInput)
    ELSE IF ~Truthy(in.codeReflection) \/ TypeOf(in.codeReflection) # "string"
        THEN Throw(MsgReflection)
    ELSE IF TypeOf(in.stepNumber) # "number"
        THEN Throw(MsgStepNumber)
    ELSE IF TypeOf(in.totalSteps) # "number"
        THEN Throw(MsgTotalSteps)
    ELSE IF TypeOf(in.nextStepNeeded) # "boolean"
        THEN Throw(MsgNextStepNeeded)
    ELSE Return([codeReflection |-> in.codeReflection,
                 stepNumber |-> in.stepNumber,
                 totalSteps |-> in.totalSteps,
                 nextStepNeeded |-> in.nextStepNeeded,
                 isRevision |-> in.isRevision,
                 revisesStep |-> in.revisesStep,
                 branchFromStep |-> in.branchFromStep,
                 branchId |-> in.branchId,
                 needsMoreSteps |-> in.needsMoreSteps])

\* validateCodePlanningData without the check of lines 41-43.
validateWithoutBooleanCheck(in) ==
    IF in.kind = "null" THEN Throw(MsgNullInput)
    ELSE IF in.kind = "undefined" THEN Throw(MsgUndefinedInput)
    ELSE IF ~Truthy(in.codeReflection) \/ TypeOf(in.codeReflection) # "string"
        THEN Throw(MsgReflection)
    ELSE IF ~Truthy(in.stepNumber) \/ TypeOf(in.stepNumber) # "number"
        THEN Throw(MsgStepNumber)
    ELSE IF ~Truthy(in.totalSteps) \/ TypeOf(in.totalSteps) # "number"
        THEN Throw(MsgTotalSteps)
    ELSE Return([codeReflection |-> in.codeReflection,
                 stepNumber |-> in.stepNumber,
                 totalSteps |-> in.totalSteps,
                 nextStepNeeded |-> in.nextStepNeeded,
                 isRevision |-> in.isRevision,
                 revisesStep |-> in.revisesStep,
                 branchFromStep |-> in.branchFromStep,
                 branchId |-> in.branchId,
                 needsMoreSteps |-> in.needsMoreSteps])

validateCodePlanningData(in) ==
    IF in.kind = "null" THEN Throw(MsgNullInput)
    ELSE IF in.kind = "undefined" THEN Throw(MsgUndefinedInput)
    ELSE IF ~Truthy(in.codeReflection) \/ TypeOf(in.codeReflection) # "string"
        THEN Throw(MsgReflection)
    ELSE IF ~Truthy(in.stepNumber) \/ TypeOf(in.stepNumber) # "number"
        THEN Throw(MsgStepNumber)
    ELSE IF ~Truthy(in.totalSteps) \/ TypeOf(in.totalSteps) # "number"
        THEN Throw(MsgTotalSteps)
    ELSE IF TypeOf(in.nextStepNeeded) # "boolean"
        THEN Throw(MsgNextStepNeeded)
    ELSE Return([codeReflection |-> in.codeReflection,
                 stepNumber |-> in.stepNumber,
                 totalSteps |-> in.totalSteps,
                 nextStepNeeded |-> in.nextStepNeeded,
                 isRevision |-> in.isRevision,
                 revisesStep |-> in.revisesStep,
                 branchFromStep |-> in.branchFromStep,
                 branchId |-> in.branchId,
                 needsMoreSteps |-> in.needsMoreSteps])

(***************************************************************************)
(* The state: the two fields of the one CleanCodePlanningServer instance,  *)
(* and what a caller observes of the latest call.                          *)
(***************************************************************************)
VARIABLES
    reflectionHistory,  \* the array of recorded CodePlanningData objects
    branches,           \* the own properties of the branches object: key -> array
    input,              \* the argument of the latest call
    result,             \* what the latest call returned
    stderr,             \* what the latest call wrote with console.error ("" if nothing)
    writeThrew,         \* whether console.error threw in the latest call
    request,            \* the request of the latest call, when it came by the handler
    successes,          \* the number of success results returned so far
    calls,              \* the number of calls made
    pending,            \* requests received whose handler has not run yet
    handled,            \* the requests whose handler has run, in that order
    completed,          \* results returned by the handler and not yet sent
    delivered           \* the latest response sent

\* The requests in flight between the transport and the handler.
queueVars == <<pending, handled, completed, delivered>>

vars ==
    <<reflectionHistory, branches, input, result, stderr, writeThrew, request,
      successes, calls, pending, handled, completed, delivered>>

\* The object validateCodePlanningData returned, as the object of identity id:
\* the arrays hold references, and two calls never share an object.
Alloc(d, id) == [f \in DOMAIN d \cup {"id"} |-> IF f = "id" THEN id ELSE d[f]]

\* Lines 103-105 left out.
AdjustNothing(d) == d

\* Lines 103-105: raise totalSteps to stepNumber.
AdjustTotalSteps(d) ==
    IF Gt(d.stepNumber, d.totalSteps)
    THEN [d EXCEPT !.totalSteps = d.stepNumber]
    ELSE d

\* The properties every object inherits from Object.prototype: the branches
\* object is a plain {} and a lookup of one of these keys finds the inherited
\* value (a function, or the prototype itself), which is truthy and no array.
ObjectPrototypeKeys ==
    {"constructor", "__proto__", "toString", "toLocaleString", "valueOf",
     "hasOwnProperty", "isPrototypeOf", "propertyIsEnumerable"}

\* this.branches[key]: "array" for an own property, "inherited" for a
\* property of Object.prototype, "undefined" otherwise.
BranchesGet(br, key) ==
    IF key \in DOMAIN br THEN "array"
    ELSE IF key \in ObjectPrototypeKeys THEN "inherited"
    ELSE "undefined"

\* A new branches object holding only the new key.
BranchesCreateFresh(br, key) == [k \in {key} |-> <<>>]

\* this.branches[key] = [] for a key that is not yet a property.
BranchesCreate(br, key) ==
    [k \in DOMAIN br \cup {key} |-> IF k = key THEN <<>> ELSE br[k]]

\* The push on an own array made twice.
BranchesPushTwice(br, key, d) ==
    [br EXCEPT ![key] = Append(Append(br[key], d), d)]

\* this.branches[key].push(d) on an own array.
BranchesPush(br, key, d) == [br EXCEPT ![key] = Append(br[key], d)]

\* The push made twice.
HistoryPushTwice(h, d) == Append(Append(h, d), d)

\* reflectionHistory.push(d).
HistoryPush(h, d) == Append(h, d)

\* The test of line 109 on branchId alone.
IsBranchStepByIdOnly(d) == Truthy(d.branchId)

\* Line 109: validatedInput.branchFromStep && validatedInput.branchId.
IsBranchStep(d) == Truthy(d.branchFromStep) /\ Truthy(d.branchId)

\* Lines 109-114: the branch bookkeeping.  The outcome tells whether it
\* threw, with what message, and the branches object it leaves.
BranchBookkeeping(br, d) ==
    IF ~IsBranchStep(d)
    THEN [threw |-> FALSE, error |-> "", branches |-> br]
    ELSE IF ToStringThrows(d.branchId)
    THEN [threw |-> TRUE, error |-> MsgNoPrimitive, branches |-> br]
    ELSE LET key == JsToString(d.branchId)
             got == BranchesGet(br, key)
         IN  IF got = "inherited"
             THEN [threw |-> TRUE, error |-> MsgNotAFunction, branches |-> br]
             ELSE [threw |-> FALSE, error |-> "",
                   branches |->
                       BranchesPush(IF got = "undefined"
                                    THEN BranchesCreate(br, key) ELSE br,
                                    key, d)]

\* formatCodeReflection: the header line of the framed block (the emoji, the
\* colour codes and the box around it are left out), or the TypeError of a
\* ${...} whose value has no primitive form.
formatCodeReflection(d) ==
    LET head(label) ==
            label \o " " \o JsToString(d.stepNumber) \o "/"
                  \o JsToString(d.totalSteps)
    IN  IF Truthy(d.isRevision)
        THEN IF ToStringThrows(d.revisesStep)
             THEN [threw |-> TRUE, error |-> MsgNoPrimitive, text |-> ""]
             ELSE [threw |-> FALSE, error |-> "",
                   text |-> head("Revision") \o " (revising step "
                            \o JsToString(d.revisesStep) \o ")"]
        ELSE IF Truthy(d.branchFromStep)
        THEN IF ToStringThrows(d.branchFromStep) \/ ToStringThrows(d.branchId)
             THEN [threw |-> TRUE, error |-> MsgNoPrimitive, text |-> ""]
             ELSE [threw |-> FALSE, error |-> "",
                   text |-> head("Alternative") \o " (from step "
                            \o JsToString(d.branchFromStep) \o ", ID: "
                            \o JsToString(d.branchId) \o ")"]
        ELSE [threw |-> FALSE, error |-> "", text |-> head("Code Step")]

(***************************************************************************)
(* The results.  The text of a result of processCodePlanning is JSON; it   *)
(* is modelled by the object a receiver parses out of it (the field text   *)
(* holds the text of a result that is plain text).                         *)
(* Object.keys(this.branches) is the array of the own keys, modelled as    *)
(* their set.                                                              *)
(***************************************************************************)
NoResult ==
    [kind |-> "none", isError |-> FALSE, error |-> "", status |-> "",
     stepNumber |-> Undef, totalSteps |-> Undef, nextStepNeeded |-> Undef,
     branches |-> {}, reflectionHistoryLength |-> 0, text |-> ""]

\* Lines 119-136.
SuccessResult(d, h, br) ==
    [kind |-> "success", isError |-> FALSE, error |-> "", status |-> "",
     stepNumber |-> JsonNumber(d.stepNumber),
     totalSteps |-> JsonNumber(d.totalSteps),
     nextStepNeeded |-> d.nextStepNeeded,
     branches |-> DOMAIN br,
     reflectionHistoryLength |-> Len(h), text |-> ""]

\* The error leaving processCodePlanning instead of being caught.
EscapingError(msg) ==
    [kind |-> "rejected", isError |-> FALSE, error |-> msg, status |-> "",
     stepNumber |-> Undef, totalSteps |-> Undef, nextStepNeeded |-> Undef,
     branches |-> {}, reflectionHistoryLength |-> 0, text |-> ""]

\* Lines 137-154.
ErrorResult(msg) ==
    [kind |-> "error", isError |-> TRUE, error |-> msg, status |-> "failed",
     stepNumber |-> Undef, totalSteps |-> Undef, nextStepNeeded |-> Undef,
     branches |-> {}, reflectionHistoryLength |-> 0, text |-> ""]

(***************************************************************************)
(* processCodePlanning: one synchronous call.  A throw inside the try      *)
(* block leaves the mutations made before it and goes to the catch block.  *)
(* Whether console.error (line 117) throws is the environment's choice:    *)
(* the call is inside the try block, with no handler of its own.           *)
(***************************************************************************)
\* The outcomes of console.error: TRUE when it throws.
ConsoleErrorOutcomes == BOOLEAN

processCodePlanning(in) ==
    LET v == validateCodePlanningData(in)
        validatedInput == Alloc(AdjustTotalSteps(v.data), Len(reflectionHistory) + 1)
        history1 == HistoryPush(reflectionHistory, validatedInput)
        bk == BranchBookkeeping(branches, validatedInput)
        fmt == formatCodeReflection(validatedInput)
    IN  /\ calls < MaxCalls
        /\ calls' = calls + 1
        /\ input' = in
        /\ IF v.threw
           THEN /\ result' = ErrorResult(v.error)
                /\ writeThrew' = FALSE
                /\ stderr' = ""
                /\ UNCHANGED <<reflectionHistory, branches>>
           ELSE IF bk.threw
           THEN /\ reflectionHistory' = history1
                /\ result' = ErrorResult(bk.error)
                /\ writeThrew' = FALSE
                /\ stderr' = ""
                /\ UNCHANGED branches
           ELSE IF fmt.threw
           THEN /\ reflectionHistory' = history1
                /\ branches' = bk.branches
                /\ result' = ErrorResult(fmt.error)
                /\ writeThrew' = FALSE
                /\ stderr' = ""
           ELSE /\ reflectionHistory' = history1
                /\ branches' = bk.branches
                /\ \E w \in ConsoleErrorOutcomes :
                      /\ writeThrew' = w
                      /\ IF w
                         THEN /\ result' = ErrorResult(MsgWriteFailed)
                              /\ stderr' = ""
                         ELSE /\ stderr' = fmt.text
                              /\ result' = SuccessResult(validatedInput, history1,
                                                         bk.branches)
        /\ successes' = IF result'.kind = "success" THEN successes + 1 ELSE successes

(***************************************************************************)
(* The handler of CallToolRequestSchema (lines 284-308).  A request has a  *)
(* tool name and arguments; the arguments may be absent (present = FALSE), *)
(* and then reading request.params.arguments.thought throws, outside any   *)
(* try block: the handler's promise is rejected.                           *)
(***************************************************************************)
MsgNoArguments == "Cannot read properties of undefined (reading 'thought')"

MakeArguments(present, in) ==
    [present |-> present,
     thought |-> in.codeReflection,
     thoughtNumber |-> in.stepNumber,
     totalThoughts |-> in.totalSteps,
     nextThoughtNeeded |-> in.nextStepNeeded,
     isRevision |-> in.isRevision,
     revisesThought |-> in.revisesStep,
     branchFromThought |-> in.branchFromStep,
     branchId |-> in.branchId,
     needsMoreThoughts |-> in.needsMoreSteps]

\* No input: processCodePlanning was not called.
NoInput == MakeInput("none", Undef, Undef, Undef, Undef, NoOptional)

NoArguments == MakeArguments(FALSE, NoInput)

MakeRequest(name, args) == [name |-> name, arguments |-> args]

\* No request: the latest call did not come by the handler.
NoRequest == MakeRequest("", NoArguments)

\* The tool names and the arguments tried.
ToolNames == {"cleancode", "sequentialthinking"}

\* Arguments that pass validation, with and without a branch, arguments
\* with thoughtNumber omitted, and no arguments.
RequestArguments ==
    {MakeArguments(TRUE, MakeInput("object", Str("x"), s, Num(1), Bool(TRUE), o)) :
        s \in {Num(1), Num(2), Undef},
        o \in {NoOptional, Optional(Undef, Undef, Num(1), Str("a"), Undef)}}
    \cup {NoArguments}

Requests == {MakeRequest(n, a) : n \in ToolNames, a \in RequestArguments}

\* Lines 286-296: the object the handler builds from the arguments.
InputOfArguments(args) ==
    MakeInput("object", args.thought, args.thoughtNumber, args.totalThoughts,
              args.nextThoughtNeeded,
              Optional(args.isRevision, args.revisesThought,
                       args.branchFromThought, args.branchId,
                       args.needsMoreThoughts))

\* The handler routing every name to the tool.
IsAnyTool(name) == TRUE

\* Line 285: request.params.name === "cleancode".
IsCleanCodeTool(name) == name = "cleancode"

\* Lines 299-307.
UnknownToolResult(name) ==
    [kind |-> "text", isError |-> TRUE, error |-> "", status |-> "",
     stepNumber |-> Undef, totalSteps |-> Undef, nextStepNeeded |-> Undef,
     branches |-> {}, reflectionHistoryLength |-> 0,
     text |-> "Unknown tool: " \o name]

\* The handler threw: no result is returned.
HandlerRejected(msg) ==
    [kind |-> "rejected", isError |-> FALSE, error |-> msg, status |-> "",
     stepNumber |-> Undef, totalSteps |-> Undef, nextStepNeeded |-> Undef,
     branches |-> {}, reflectionHistoryLength |-> 0, text |-> ""]

\* A call of processCodePlanning from outside the handler.
DirectCall(in) ==
    /\ processCodePlanning(in)
    /\ request' = NoRequest

\* One run of the handler.
CallTool(req) ==
    /\ request' = req
    /\ IF IsCleanCodeTool(req.name) /\ req.arguments.present
       THEN processCodePlanning(InputOfArguments(req.arguments))
       ELSE /\ calls < MaxCalls
            /\ calls' = calls + 1
            /\ input' = NoInput
            /\ result' = IF IsCleanCodeTool(req.name)
                         THEN HandlerRejected(MsgNoArguments)
                         ELSE UnknownToolResult(req.name)
            /\ stderr' = ""
            /\ writeThrew' = FALSE
            /\ UNCHANGED <<reflectionHistory, branches, successes>>

\* No response sent yet.
NoDelivery == [id |-> 0, result |-> NoResult]

Init ==
    /\ reflectionHistory = <<>>
    /\ branches = [k \in {} |-> <<>>]
    /\ input = NoInput
    /\ result = NoResult
    /\ stderr = ""
    /\ writeThrew = FALSE
    /\ request = NoRequest
    /\ successes = 0
    /\ calls = 0
    /\ pending = {}
    /\ handled = <<>>
    /\ completed = {}
    /\ delivered = NoDelivery

\* One call at a time: a direct call of processCodePlanning, or a request
\* handled as soon as it is received.
Next ==
    \/ \E in \in Inputs : DirectCall(in) /\ UNCHANGED queueVars
    \/ \E req \in Requests : CallTool(req) /\ UNCHANGED queueVars

Spec == Init /\ [][Next]_vars

(***************************************************************************)
(* Several requests in flight.  The transport receives requests while      *)
(* earlier ones wait; each run of the handler (lines 284-308) and of       *)
(* processCodePlanning (lines 96-155) contains no await, so it is one      *)
(* step; the response is sent after the handler returned, possibly after   *)
(* other handlers ran.                                                     *)
(***************************************************************************)
\* The requests submitted: a valid step, a step on branch "a" whose
\* totalSteps is adjusted, a step on the branch key "constructor", a step
\* without thoughtNumber, a request without arguments, another tool.
ConcurrentRequests ==
    {MakeRequest("cleancode", MakeArguments(TRUE,
        MakeInput("object", Str("x"), Num(1), Num(1), Bool(TRUE), NoOptional))),
     MakeRequest("cleancode", MakeArguments(TRUE,
        MakeInput("object", Str("x"), Num(2), Num(1), Bool(TRUE),
                  Optional(Undef, Undef, Num(1), Str("a"), Undef)))),
     MakeRequest("cleancode", MakeArguments(TRUE,
        MakeInput("object", Str("x"), Num(1), Num(1), Bool(TRUE),
                  Optional(Undef, Undef, Num(1), Str("constructor"), Undef)))),
     MakeRequest("cleancode", MakeArguments(TRUE,
        MakeInput("object", Str("x"), Undef, Num(1), Bool(TRUE), NoOptional))),
     MakeRequest("cleancode", NoArguments),
     MakeRequest("sequentialthinking", MakeArguments(TRUE,
        MakeInput("object", Str("x"), Num(1), Num(1), Bool(TRUE), NoOptional)))}

\* The transport receives a request; its handler has not run yet.
Submit(req) ==
    /\ Len(handled) + Cardinality(pending) < MaxCalls
    /\ pending' = pending \cup
          {[id |-> Len(handled) + Cardinality(pending) + 1, request |-> req]}
    /\ UNCHANGED <<reflectionHistory, branches, input, result, stderr,
                   writeThrew, request, successes, calls, handled, completed,
                   delivered>>

\* The handler runs for one of the waiting requests, to its return.
Handle(p) ==
    /\ p \in pending
    /\ CallTool(p.request)
    /\ pending' = pending \ {p}
    /\ handled' = Append(handled, p)
    /\ completed' = completed \cup {[id |-> p.id, result |-> result']}
    /\ UNCHANGED delivered

\* The response of a handler that returned is sent.
Respond(f) ==
    /\ f \in completed
    /\ completed' = completed \ {f}
    /\ delivered' = f
    /\ UNCHANGED <<reflectionHistory, branches, input, result, stderr,
                   writeThrew, request, successes, calls, pending, handled>>

NextConcurrent ==
    \/ \E req \in ConcurrentRequests : Submit(req)
    \/ \E p \in pending : Handle(p)
    \/ \E f \in completed : Respond(f)

SpecConcurrent == Init /\ [][NextConcurrent]_vars

(***************************************************************************)
(* Vocabulary of the properties.                                           *)
(***************************************************************************)
\* A step of the model was a call.
Called == calls' = calls + 1

\* The latest call ran processCodePlanning.
CoreCalled(in) == in.kind # "none"

IsPrefix(p, q) == Len(p) <= Len(q) /\ SubSeq(q, 1, Len(p)) = p

Last(q) == q[Len(q)]

InSeq(x, q) == \E i \in 1..Len(q) : q[i] = x

\* The list of a branch key, empty for a key the branches object does not own.
BranchList(br, b) == IF b \in DOMAIN br THEN br[b] ELSE <<>>

\* What the spec asks of the four required properties of an input object: a
\* non-empty string, two numbers that are neither zero nor NaN, a boolean.
IsNonEmptyString(v) == v.t = "string" /\ v.s # ""

IsNonZeroNumber(v) == v.t = "number" /\ v.s # "NaN" /\ ~(v.s = "" /\ v.n = 0)

RequiredValid(in) ==
    /\ in.kind \in {"object", "primitive"}
    /\ IsNonEmptyString(in.codeReflection)
    /\ IsNonZeroNumber(in.stepNumber)
    /\ IsNonZeroNumber(in.totalSteps)
    /\ in.nextStepNeeded.t = "boolean"

RequiredInvalid(in) ==
    /\ in.kind \in {"object", "primitive"}
    /\ ~RequiredValid(in)

\* a >= b on two numbers that passed validation.
Geq(a, b) == a.s = "Infinity" \/ (a.s = "" /\ b.s = "" /\ a.n >= b.n)

\* An input carries both branch properties, present and non-empty/non-zero.
CarriesBranch(in) == Truthy(in.branchFromStep) /\ IsNonEmptyString(in.branchId)

(***************************************************************************)
(* C1.  Every call that returns an error result, whatever its cause, leaves *)
(* reflectionHistory and branches exactly as they were before the call.    *)
(* The code does not: a throw after line 107 is reported as an error       *)
(* result with the step already recorded.  (Stated here for the calls in   *)
(* which console.error does not throw: the claim fails without it.)        *)
(***************************************************************************)
C1_ErrorResultLeavesState ==
    [][(Called /\ result'.isError /\ ~writeThrew')
          => (reflectionHistory' = reflectionHistory /\ branches' = branches)]_vars

(***************************************************************************)
(* C2.  When a required property of the input is missing or mis-typed, the *)
(* call returns an error result carrying a validation message, and neither *)
(* reflectionHistory nor any branch list gains an entry, and no branch key *)
(* is created.                                                             *)
(***************************************************************************)
C2_ValidationFailureLeavesState ==
    [][(Called /\ RequiredInvalid(input'))
          => /\ result'.kind = "error"
             /\ result'.isError
             /\ result'.status = "failed"
             /\ result'.error \in ValidationMessages
             /\ reflectionHistory' = reflectionHistory
             /\ branches' = branches]_vars

\* A call with stepNumber omitted and both branch properties given, after a
\* step was recorded: it failed, and nothing was added.
C2_Witness ==
    /\ calls = 2
    /\ input.stepNumber = Undef
    /\ CarriesBranch(input)
    /\ result.error = MsgStepNumber
    /\ Len(reflectionHistory) = 1
    /\ DOMAIN branches = {}

(***************************************************************************)
(* C3.  A successful call makes reflectionHistory exactly one longer, the  *)
(* new last element being the step of this call, and no call ever makes    *)
(* reflectionHistory shorter.                                              *)
(***************************************************************************)
C3_SuccessAppendsOne ==
    [][Called =>
          /\ Len(reflectionHistory') >= Len(reflectionHistory)
          /\ result'.kind = "success" =>
                /\ Len(reflectionHistory') = Len(reflectionHistory) + 1
                /\ SubSeq(reflectionHistory', 1, Len(reflectionHistory))
                      = reflectionHistory
                /\ Last(reflectionHistory').codeReflection = input'.codeReflection
                /\ Last(reflectionHistory').stepNumber = input'.stepNumber
                /\ Last(reflectionHistory').nextStepNeeded = input'.nextStepNeeded
                /\ Last(reflectionHistory').branchId = input'.branchId
                /\ Last(reflectionHistory').branchFromStep = input'.branchFromStep
                /\ Last(reflectionHistory').isRevision = input'.isRevision
                /\ Last(reflectionHistory').revisesStep = input'.revisesStep
                /\ Last(reflectionHistory').needsMoreSteps = input'.needsMoreSteps]_vars

\* Two successful calls in a row: the history has grown to two.
C3_Witness ==
    /\ calls = 2
    /\ result.kind = "success"
    /\ Len(reflectionHistory) = 2

(***************************************************************************)
(* C4.  A call that passes validation and carries both branchFromStep and  *)
(* branchId makes branches[branchId] gain exactly one entry, the step of   *)
(* this call at the end, creating the list if the key did not exist, for   *)
(* every (non-empty) string branchId; every other branch list is           *)
(* unchanged.  The code does not for a branchId that names a property of   *)
(* Object.prototype.                                                       *)
(***************************************************************************)
C4_BranchGainsOneEntry ==
    [][(Called /\ RequiredValid(input') /\ CarriesBranch(input'))
          => LET b == input'.branchId.s
             IN  /\ b \in DOMAIN branches'
                 /\ branches'[b]
                       = Append(BranchList(branches, b), Last(reflectionHistory'))
                 /\ \A k \in DOMAIN branches' \ {b} :
                       k \in DOMAIN branches /\ branches'[k] = branches[k]]_vars

(***************************************************************************)
(* C5 as claimed.  Every successfully recorded step that carries a         *)
(* branchId b is in branches[b]: here for the step of the latest call.     *)
(***************************************************************************)
C5_EveryStepWithBranchIdIsInItsBranch ==
    (result.kind = "success" /\ input.branchId.t = "string")
        => InSeq(Last(reflectionHistory), BranchList(branches, input.branchId.s))

\* The steps of a history that name the branch key b the way line 109 asks:
\* branchFromStep and branchId both truthy.
BranchStepsOf(h, b) ==
    SelectSeq(h, LAMBDA d :
        /\ Truthy(d.branchFromStep)
        /\ Truthy(d.branchId)
        /\ ~ToStringThrows(d.branchId)
        /\ JsToString(d.branchId) = b)

(***************************************************************************)
(* C5 as amended.  For each key b of branches, branches[b] is, in call     *)
(* order, exactly the recorded steps that carry branchId = b together with *)
(* a truthy branchFromStep, and the step of a successful call that carries *)
(* both is under its key; a step that carries a branchId without a truthy  *)
(* branchFromStep is in no branch list.                                    *)
(***************************************************************************)
C5_BranchHoldsStepsWithBothFields ==
    /\ \A b \in DOMAIN branches :
          branches[b] = BranchStepsOf(reflectionHistory, b)
    /\ (result.kind = "success" /\ Truthy(input.branchFromStep)
            /\ Truthy(input.branchId))
          => /\ JsToString(input.branchId) \in DOMAIN branches
             /\ Last(branches[JsToString(input.branchId)]) = Last(reflectionHistory)

\* A branch "a" with an entry, and a recorded step that carries branchId "a"
\* without branchFromStep.
C5_Witness ==
    /\ "a" \in DOMAIN branches
    /\ Len(branches["a"]) = 1
    /\ \E i \in 1..Len(reflectionHistory) :
          /\ reflectionHistory[i].branchId = Str("a")
          /\ ~Truthy(reflectionHistory[i].branchFromStep)

(***************************************************************************)
(* C6.  Every step stored in reflectionHistory and in any branch list has  *)
(* totalSteps >= stepNumber.                                               *)
(***************************************************************************)
C6_TotalStepsAtLeastStepNumber ==
    /\ \A i \in 1..Len(reflectionHistory) :
          Geq(reflectionHistory[i].totalSteps, reflectionHistory[i].stepNumber)
    /\ \A b \in DOMAIN branches : \A i \in 1..Len(branches[b]) :
          Geq(branches[b][i].totalSteps, branches[b][i].stepNumber)

\* A step given with stepNumber 2 and totalSteps 1 is stored, in the history
\* and in a branch list.
C6_Witness ==
    /\ input.stepNumber = Num(2)
    /\ input.totalSteps = Num(1)
    /\ result.kind = "success"
    /\ Last(reflectionHistory).totalSteps = Num(2)
    /\ "a" \in DOMAIN branches
    /\ Last(branches["a"]) = Last(reflectionHistory)

(***************************************************************************)
(* C7.  A successful call returns totalSteps = the input's stepNumber when *)
(* that is greater than the input's totalSteps, and the input's totalSteps *)
(* otherwise; the returned stepNumber is the input's.  The code does not   *)
(* for a stepNumber that is not finite: the JSON text holds null.          *)
(***************************************************************************)
C7_ReturnedTotalStepsIsMax ==
    result.kind = "success"
        => /\ result.stepNumber = input.stepNumber
           /\ result.totalSteps
                 = IF Geq(input.totalSteps, input.stepNumber)
                   THEN input.totalSteps ELSE input.stepNumber

(***************************************************************************)
(* C8.  Every step recorded in reflectionHistory has stepNumber >= 1 and   *)
(* totalSteps >= 1.  The code records a negative stepNumber.               *)
(***************************************************************************)
C8_StepNumbersAtLeastOne ==
    \A i \in 1..Len(reflectionHistory) :
        /\ Geq(reflectionHistory[i].stepNumber, Num(1))
        /\ Geq(reflectionHistory[i].totalSteps, Num(1))

(***************************************************************************)
(* C9.  A success result reports the state after the call: its history     *)
(* length is the length of reflectionHistory, its branches are the keys of *)
(* the branches object, and its stepNumber and nextStepNeeded are the      *)
(* input's.  The code does not echo a stepNumber that is not finite.       *)
(***************************************************************************)
C9_SuccessReportsStateAfterCall ==
    result.kind = "success"
        => /\ result.reflectionHistoryLength = Len(reflectionHistory)
           /\ result.branches = DOMAIN branches
           /\ result.nextStepNeeded = input.nextStepNeeded
           /\ result.stepNumber = input.stepNumber

(***************************************************************************)
(* C10.  reflectionHistory and every branch list only grow at the end:     *)
(* what they held before a call is a prefix of what they hold after it,    *)
(* and no branch key disappears.                                           *)
(***************************************************************************)
C10_AppendOnly ==
    [][/\ IsPrefix(reflectionHistory, reflectionHistory')
       /\ DOMAIN branches \subseteq DOMAIN branches'
       /\ \A b \in DOMAIN branches : IsPrefix(branches[b], branches'[b])]_vars

\* Two recorded steps in two branches, the second call having created the
\* second branch beside the first.
C10_Witness ==
    /\ Len(reflectionHistory) = 2
    /\ DOMAIN branches = {"a", "b"}
    /\ Len(branches["a"]) = 1
    /\ Len(branches["b"]) = 1

(***************************************************************************)
(* C11.  Every entry of every branch list is also an entry of              *)
(* reflectionHistory, and no recorded object is in two branch lists or     *)
(* twice in one (objects are told apart by their identity id).             *)
(***************************************************************************)
C11_BranchEntriesAreHistoryEntriesOnce ==
    /\ \A b \in DOMAIN branches : \A i \in 1..Len(branches[b]) :
          InSeq(branches[b][i], reflectionHistory)
    /\ \A b1 \in DOMAIN branches, b2 \in DOMAIN branches :
          \A i \in 1..Len(branches[b1]), j \in 1..Len(branches[b2]) :
              branches[b1][i].id = branches[b2][j].id => (b1 = b2 /\ i = j)
    /\ \A i \in 1..Len(reflectionHistory), j \in 1..Len(reflectionHistory) :
          reflectionHistory[i].id = reflectionHistory[j].id => i = j

\* Two calls with the same content on the same branch: two objects, each once
\* in the list.
C11_Witness ==
    /\ "a" \in DOMAIN branches
    /\ Len(branches["a"]) = 2
    /\ [branches["a"][1] EXCEPT !.id = 2] = branches["a"][2]
    /\ Len(reflectionHistory) = 2

(***************************************************************************)
(* C12.  When console.error throws on a call whose input is valid, the     *)
(* call still returns the success result it would have returned had the    *)
(* write succeeded: the error flag is not set.  The code returns the error *)
(* result of its catch block instead.                                      *)
(***************************************************************************)
C12_EmitFailureKeepsSuccessResult ==
    writeThrew
        => /\ result.kind = "success"
           /\ ~result.isError
           /\ result.reflectionHistoryLength = Len(reflectionHistory)
           /\ result.branches = DOMAIN branches
           /\ result.nextStepNeeded = input.nextStepNeeded

(***************************************************************************)
(* C13.  With the properties checked earlier valid, a stepNumber that is   *)
(* the number 0 is rejected exactly like an absent stepNumber, with the    *)
(* message "Invalid stepNumber: must be a number", and a totalSteps that   *)
(* is the number 0 exactly like an absent totalSteps, with "Invalid        *)
(* totalSteps: must be a number"; nothing is recorded.                     *)
(***************************************************************************)
C13_ZeroIsRejectedLikeAbsent ==
    [][(Called /\ input'.kind = "object" /\ IsNonEmptyString(input'.codeReflection))
          => /\ input'.stepNumber \in {Num(0), Undef}
                => /\ result' = ErrorResult(MsgStepNumber)
                   /\ reflectionHistory' = reflectionHistory
                   /\ branches' = branches
             /\ (IsNonZeroNumber(input'.stepNumber)
                    /\ input'.totalSteps \in {Num(0), Undef})
                => /\ result' = ErrorResult(MsgTotalSteps)
                   /\ reflectionHistory' = reflectionHistory
                   /\ branches' = branches]_vars

\* A call with stepNumber 0 and everything else valid, after a recorded step.
C13_Witness ==
    /\ input.stepNumber = Num(0)
    /\ IsNonEmptyString(input.codeReflection)
    /\ IsNonZeroNumber(input.totalSteps)
    /\ input.nextStepNeeded.t = "boolean"
    /\ result = ErrorResult(MsgStepNumber)
    /\ Len(reflectionHistory) = 1

(***************************************************************************)
(* C14 as claimed.  Every call whose nextStepNeeded is missing or is not a *)
(* boolean returns an error result whose message is "Invalid               *)
(* nextStepNeeded: must be a boolean".                                     *)
(***************************************************************************)
C14_NonBooleanAlwaysGivesItsMessage ==
    [][(Called /\ input'.kind = "object" /\ input'.nextStepNeeded.t # "boolean")
          => (result'.isError /\ result'.error = MsgNextStepNeeded)]_vars

(***************************************************************************)
(* C14 as amended.  Every call whose nextStepNeeded is missing or is not a *)
(* boolean returns an error result and records nothing; its message is     *)
(* "Invalid nextStepNeeded: must be a boolean" when codeReflection,        *)
(* stepNumber and totalSteps pass their checks, and the message of the     *)
(* first of those checks that fails otherwise.                             *)
(***************************************************************************)
C14_NonBooleanFailsValidation ==
    [][(Called /\ input'.kind = "object" /\ input'.nextStepNeeded.t # "boolean")
          => /\ result'.kind = "error"
             /\ result'.isError
             /\ result'.status = "failed"
             /\ reflectionHistory' = reflectionHistory
             /\ branches' = branches
             /\ result'.error =
                   IF ~IsNonEmptyString(input'.codeReflection) THEN MsgReflection
                   ELSE IF ~IsNonZeroNumber(input'.stepNumber) THEN MsgStepNumber
                   ELSE IF ~IsNonZeroNumber(input'.totalSteps) THEN MsgTotalSteps
                   ELSE MsgNextStepNeeded]_vars

\* A call with the string "true" for nextStepNeeded and the rest valid.
C14_Witness ==
    /\ input.nextStepNeeded = Str("true")
    /\ IsNonEmptyString(input.codeReflection)
    /\ IsNonZeroNumber(input.stepNumber)
    /\ IsNonZeroNumber(input.totalSteps)
    /\ result = ErrorResult(MsgNextStepNeeded)
    /\ Len(reflectionHistory) = 1

(***************************************************************************)
(* C15.  Every call of processCodePlanning, for any input value (null,     *)
(* undefined and non-objects included), returns a success result or an     *)
(* error result {error, status: "failed"} with the error flag set: no      *)
(* exception leaves the call.                                              *)
(***************************************************************************)
C15_EveryCallReturnsAResult ==
    [][(Called /\ CoreCalled(input'))
          => \/ /\ result'.kind = "success"
                /\ ~result'.isError
             \/ /\ result'.kind = "error"
                /\ result'.isError
                /\ result'.status = "failed"
                /\ result'.error # ""]_vars

\* A call with null after a recorded step: the TypeError of the property read
\* came back as an error result.
C15_Witness ==
    /\ input.kind = "null"
    /\ result = ErrorResult(MsgNullInput)
    /\ Len(reflectionHistory) = 1

(***************************************************************************)
(* C16.  A request whose tool name is not "cleancode" gets a plain-text    *)
(* error payload with the error flag set, processCodePlanning is not       *)
(* called, and reflectionHistory and branches are unchanged.               *)
(***************************************************************************)
C16_UnknownToolLeavesState ==
    [][(Called /\ request'.name \notin {"", "cleancode"})
          => /\ result'.kind = "text"
             /\ result'.text = "Unknown tool: " \o request'.name
             /\ result'.isError
             /\ ~CoreCalled(input')
             /\ reflectionHistory' = reflectionHistory
             /\ branches' = branches
             /\ successes' = successes]_vars

\* A request for another tool, with arguments the tool would have recorded,
\* after a recorded step.
C16_Witness ==
    /\ request.name = "sequentialthinking"
    /\ request.arguments.present
    /\ IsNonEmptyString(request.arguments.thought)
    /\ result.text = "Unknown tool: sequentialthinking"
    /\ Len(reflectionHistory) = 1

(***************************************************************************)
(* C18.  The validation checks run in the order codeReflection,            *)
(* stepNumber, totalSteps, nextStepNeeded and the error message is that of *)
(* the first failing check; every step stored in history has a non-empty   *)
(* string codeReflection; and a call succeeds if and only if all four      *)
(* checks pass.  The last part is false: a call that passes the four       *)
(* checks with branchFromStep 1 and branchId "constructor" returns an      *)
(* error result.  (The equivalence is stated here for the calls in which   *)
(* console.error does not throw: the claim fails without it.)              *)
(***************************************************************************)
C18_SucceedsIffFourChecksPass ==
    [][(Called /\ input'.kind = "object")
          => /\ RequiredInvalid(input')
                => result' = ErrorResult(
                      IF ~IsNonEmptyString(input'.codeReflection) THEN MsgReflection
                      ELSE IF ~IsNonZeroNumber(input'.stepNumber) THEN MsgStepNumber
                      ELSE IF ~IsNonZeroNumber(input'.totalSteps) THEN MsgTotalSteps
                      ELSE MsgNextStepNeeded)
             /\ \A i \in 1..Len(reflectionHistory') :
                   IsNonEmptyString(reflectionHistory'[i].codeReflection)
             /\ ~writeThrew'
                => (result'.kind = "success" <=> RequiredValid(input'))]_vars

(***************************************************************************)
(* C19.  From a fresh server and over any interleaving of failing and      *)
(* succeeding calls, the reflectionHistoryLength reported by the n-th      *)
(* successful call is n.  False: a call that returns an error result after *)
(* its step was recorded (C1) contributes to the count, so the first       *)
(* successful call after it reports 2.  (Stated here for the calls that    *)
(* follow a call in which console.error did not throw.)                    *)
(***************************************************************************)
C19_NthSuccessReportsN ==
    [][(Called /\ result'.kind = "success" /\ ~writeThrew)
          => result'.reflectionHistoryLength = successes']_vars

(***************************************************************************)
(* Serial execution, for the properties of requests in flight.             *)
(***************************************************************************)
\* What one call of processCodePlanning makes of a history, a branches
\* object and an input, when console.error throws (w) or not.
CoreOutcome(h, br, in, w) ==
    LET v == validateCodePlanningData(in)
        d == Alloc(AdjustTotalSteps(v.data), Len(h) + 1)
        h1 == HistoryPush(h, d)
        bk == BranchBookkeeping(br, d)
        fmt == formatCodeReflection(d)
    IN  IF v.threw
        THEN [h |-> h, br |-> br, result |-> ErrorResult(v.error)]
        ELSE IF bk.threw
        THEN [h |-> h1, br |-> br, result |-> ErrorResult(bk.error)]
        ELSE IF fmt.threw
        THEN [h |-> h1, br |-> bk.branches, result |-> ErrorResult(fmt.error)]
        ELSE IF w
        THEN [h |-> h1, br |-> bk.branches, result |-> ErrorResult(MsgWriteFailed)]
        ELSE [h |-> h1, br |-> bk.branches,
              result |-> SuccessResult(d, h1, bk.branches)]

\* What one run of the handler makes of them.
HandlerOutcome(h, br, req, w) ==
    IF req.name = "cleancode" /\ req.arguments.present
    THEN CoreOutcome(h, br, InputOfArguments(req.arguments), w)
    ELSE [h |-> h, br |-> br,
          result |-> IF req.name = "cleancode"
                     THEN HandlerRejected(MsgNoArguments)
                     ELSE UnknownToolResult(req.name)]

\* The state after the handler ran for each request of a sequence, one
\* whole run after the other, from a fresh server.
RECURSIVE SerialState(_)
SerialState(ps) ==
    IF ps = <<>>
    THEN [h |-> <<>>, br |-> [k \in {} |-> <<>>]]
    ELSE LET s == SerialState(SubSeq(ps, 1, Len(ps) - 1))
             o == HandlerOutcome(s.h, s.br, ps[Len(ps)].request, FALSE)
         IN  [h |-> o.h, br |-> o.br]

\* The state is that of the handled requests run one after the other.
StateIsSerial ==
    LET s == SerialState(handled)
    IN  reflectionHistory = s.h /\ branches = s.br

\* Every result returned or sent is one the serial run gives to its call.
ResultsAreSerial ==
    \A f \in completed \cup ({delivered} \ {NoDelivery}) :
        \E k \in 1..Len(handled) :
            /\ handled[k].id = f.id
            /\ LET s == SerialState(SubSeq(handled, 1, k - 1))
               IN  \E w \in BOOLEAN :
                      f.result = HandlerOutcome(s.h, s.br, handled[k].request, w).result

\* Every step in history has its totalSteps adjusted and, when it carries
\* branchFromStep and branchId, is in the list of its branch.
NoPartialStep ==
    \A i \in 1..Len(reflectionHistory) :
        LET d == reflectionHistory[i]
        IN  /\ Geq(d.totalSteps, d.stepNumber)
            /\ (IsBranchStep(d) /\ d.branchId.t = "string")
                  => InSeq(d, BranchList(branches, d.branchId.s))

(***************************************************************************)
(* C17.  With several requests in flight, each call does its totalSteps    *)
(* adjustment, history push and branch push as one step with respect to    *)
(* every other call: no call and no returned result observes a state in    *)
(* which a step is in history without its totalSteps adjustment or without *)
(* its branch push, and the state is that of a serial order of the calls.  *)
(* False in its second part: the state and the results are those of the    *)
(* serial order in which the handlers ran, but a step on the branch key    *)
(* "constructor" stays in history without a branch push (C1, C4), and      *)
(* every later call and result observes that state.                        *)
(***************************************************************************)
C17_CallsAreAtomic ==
    /\ []StateIsSerial
    /\ []ResultsAreSerial
    /\ [][(Called /\ CoreCalled(input')) => NoPartialStep]_vars

=============================================================================
